---- MODULE Spec2Model ----
(***************************************************************************)
(* Surgical Vision: the Express/SQLite scan API (server/index.js,          *)
(* server/routes/index.js, server/config/db.js,                            *)
(* server/controllers/scanController.js) and the life cycle of the         *)
(* Three.js viewer components (mount, render loop, cleanup).               *)
(***************************************************************************)
EXTENDS Integers, Sequences, FiniteSets, TLC

VARIABLES
    scans,      \* table scans: id -> row
    seq,        \* sqlite_sequence of table scans (largest id ever assigned)
    resp,       \* the response sent to the request handled last
    req,        \* the upload request that response answers, if it answers one
    uploaded,   \* client side: scanId of a 201 response -> what was uploaded
    statsPc,    \* position of the GET /stats handler between its awaits
    stats,      \* the handler's local object `stats`
    tdv,        \* ThreeDVisualization instance
    sps,        \* SurgicalPathSimulator / DigitalTwinSimulator instance
    mv,         \* ModelViewer / EnhancedModelViewer instance
    msv,        \* MedicalSliceViewer instance
    db,         \* the tables patients, users and scan_annotations: rowid -> row
    posted,     \* client side: the scanIds of the annotations a 201 acknowledged
    auth,       \* AuthProvider: its state and its pending timers
    boot,       \* the server process: initializeDatabase and startServer
    page,       \* a scan viewer page (/visualizer/:scanId and its three siblings)
    dash,       \* the Dashboard page
    ai,         \* AIMultiModalAnalysis instance
    twin,       \* DigitalTwinSimulator instance: its simulation run
    ar          \* ARSurgicalGuidance instance

apiVars == <<scans, seq, resp, req, uploaded, statsPc, stats>>
viewerVars == <<tdv, sps>>
modelViewerVars == <<mv>>
sliceVars == <<msv>>
tableVars == <<db, posted>>
authVars == <<auth>>
bootVars == <<boot>>
pageVars == <<page, dash, ai, twin, ar>>
vars == <<scans, seq, resp, req, uploaded, statsPc, stats, tdv, sps, mv, msv, db, posted, auth, boot, page, dash, ai, twin, ar>>

----------------------------------------------------------------------------
(* Bounds *)

MaxUploads == 2      \* rows inserted by POST /scans in one run
MaxFormUploads == 1  \* the same, where every request of the upload form is tried
MaxScenes == 2       \* scenes one viewer creates (mount and scan changes)
MaxFrames == 3       \* calls of render by one viewer
MaxMarkers == 2      \* annotation markers one model viewer adds
MaxSlice == 2        \* the highest slice index the user pages to
MaxAnnotations == 1  \* annotations stored by one slice viewer
MaxLogins == 2       \* calls of login

(* Program constants *)

KB == 1                       \* file sizes are counted in KB
MB == 1024 * KB
FileSizeLimit == 50 * MB      \* multer limits.fileSize
NumSampleScans == 6           \* rows of insertSampleData's `scans`

----------------------------------------------------------------------------
(* Strings of file names are sequences of tokens, so that toLowerCase,     *)
(* includes and endsWith are computed instead of assumed.                  *)

ToLowerTok(t) ==
    CASE t = "BRAIN" -> "brain"
      [] t = "Head"  -> "head"
      [] t = ".DCM"  -> ".dcm"
      [] t = ".PNG"  -> ".png"
      [] OTHER       -> t

ToLowerCase(name) == [i \in 1..Len(name) |-> ToLowerTok(name[i])]

Includes(name, tok) == \E i \in 1..Len(name) : name[i] = tok

EndsWith(name, tok) == Len(name) > 0 /\ name[Len(name)] = tok

----------------------------------------------------------------------------
(* Inputs *)

NoFile == [present |-> FALSE, originalname |-> <<>>, mimetype |-> "", size |-> 0]

File(n, m, s) == [present |-> TRUE, originalname |-> n, mimetype |-> m, size |-> s]

Files ==
    { File(<<"BRAIN", "_ct", ".PNG">>, "image/png", 1 * MB),
      File(<<"spine", ".DCM">>, "application/octet-stream", 12 * MB),
      File(<<"chest", ".gif">>, "image/gif", 512 * KB),
      File(<<"notes", ".txt">>, "text/plain", 2 * KB),
      File(<<"huge", ".png">>, "image/png", 60 * MB) }

PatientNames == {"", "Test Patient", "Jane Smith"}   \* "" : absent or empty
ScanTypes == {"", "CT", "MRI", "X-Ray", "PET"}
StatusInputs == {"", "pending", "completed", "failed", "archived"}
IdInputs == {1} \cup ((NumSampleScans + 1)..(NumSampleScans + MaxUploads + 1))

----------------------------------------------------------------------------
(* scanController.js *)

Details(level) ==
    CASE level = "high"   -> "Critical risk factors identified requiring immediate attention."
      [] level = "medium" -> "Moderate risk factors present requiring careful planning."
      [] OTHER            -> "No significant risk factors detected."

\* RiskLevel with no level for a scan type it has no branch for.
RiskLevel_unknownType(scanType, file, r1, r2, r3) ==
    IF scanType \notin {"CT", "MRI", "X-Ray"} THEN "unknown"
    ELSE IF scanType = "CT" /\ r1 THEN "high"
    ELSE IF scanType = "MRI" /\ r3 THEN "medium"
    ELSE "low"

\* r1, r2, r3: the outcomes of the comparisons Math.random() > 0.6,
\* Math.random() > 0.4 (CT, cranial file name) and Math.random() > 0.7 (MRI).
RiskLevel(scanType, file, r1, r2, r3) ==
    LET fileName == IF file.present THEN ToLowerCase(file.originalname) ELSE <<>>
        cranial  == \/ Includes(fileName, "brain")
                    \/ Includes(fileName, "head")
                    \/ Includes(fileName, "cranial")
    IN  IF scanType = "CT"
        THEN IF cranial
             THEN IF r1 THEN "high" ELSE IF r2 THEN "medium" ELSE "low"
             ELSE "low"
        ELSE IF scanType = "MRI"
        THEN IF r3 THEN "medium" ELSE "low"
        ELSE "low"

getRiskAssessment(scanType, file, r1, r2, r3) ==
    LET level == RiskLevel(scanType, file, r1, r2, r3)
    IN  [level |-> level, details |-> Details(level), confidence |-> 50]

----------------------------------------------------------------------------
(* server/index.js: multer configuration and error middleware *)

AllowedTypes == {"image/jpeg", "image/png", "image/gif"}

fileFilter(file) ==
    LET isDicom == EndsWith(ToLowerCase(file.originalname), ".dcm")
    IN  file.mimetype \in AllowedTypes \/ isDicom

\* What upload.single('scan') does with the request: "next" hands the request
\* to the route handler, the other outcomes are errors passed to the error
\* middleware (a plain Error of fileFilter, or a MulterError).
Multer(file) ==
    IF ~file.present THEN "next"
    ELSE IF ~fileFilter(file) THEN "Error"
    ELSE IF file.size > FileSizeLimit THEN "LIMIT_FILE_SIZE"
    ELSE "next"

ErrorMiddlewareCode(err) == IF err = "LIMIT_FILE_SIZE" THEN 400 ELSE 500

ErrorMiddlewareMessage(err) ==
    IF err = "LIMIT_FILE_SIZE" THEN "File too large. Maximum size is 50MB."
    ELSE "Internal server error"

----------------------------------------------------------------------------
(* server/config/db.js *)

Row(p, t, r, s, d) ==
    [patient_name |-> p, scan_type |-> t, risk_level |-> r, status |-> s, date |-> d]

\* insertSampleData: dates are ranked, 2024-01-10 (1) up to 2024-01-15 (6).
SampleScans ==
    <<Row("John Doe", "CT", "high", "completed", 6),
      Row("Jane Smith", "MRI", "low", "completed", 5),
      Row("Robert Johnson", "CT", "medium", "pending", 4),
      Row("Maria Garcia", "X-Ray", "low", "completed", 3),
      Row("John Doe", "MRI", "high", "pending", 2),
      Row("Jane Smith", "CT", "medium", "completed", 1)>>

SamplePatients == <<"John Doe", "Jane Smith", "Robert Johnson", "Maria Garcia">>

UserRow(n, e, r) == [name |-> n, email |-> e, role |-> r]

SampleUsers ==
    <<UserRow("Dr. Smith", "dr.smith@hospital.com", "surgeon"),
      UserRow("Dr. Johnson", "dr.johnson@hospital.com", "surgeon"),
      UserRow("Nurse Williams", "nurse.williams@hospital.com", "nurse"),
      UserRow("Admin User", "admin@hospital.com", "admin")>>

AnnotationRow(s, n, t, c) == [scan_id |-> s, note |-> n, type |-> t, created_by |-> c]

SampleAnnotations ==
    <<AnnotationRow(1, "Critical vessel proximity - exercise extreme caution", "critical", "Dr. Smith"),
      AnnotationRow(1, "Tumor boundary clearly defined", "info", "Dr. Smith"),
      AnnotationRow(2, "Normal tissue structure", "info", "Dr. Johnson"),
      AnnotationRow(3, "Potential surgical approach point", "warning", "Dr. Smith")>>

\* scans.uploaded_by TEXT DEFAULT 'Dr. Smith': no INSERT of the program sets it
UploadedBy(row) == "Dr. Smith"

\* The first date of the current month, on the same scale: the sample rows are
\* older, CURRENT_TIMESTAMP of an upload is not.
StartOfMonth == NumSampleScans + 1

\* INTEGER PRIMARY KEY AUTOINCREMENT: one more than the largest id ever used.
NextRowId(s) == s + 1

\* runQuery resolves { id: this.lastID, changes: this.changes }.
RunQueryResult(lastID, changes) == [id |-> lastID, changes |-> changes]

\* getQuery: the row, or undefined (here: absent from the table).
HasRow(tbl, id) == id \in DOMAIN tbl

\* SELECT COUNT(*) as count FROM scans [WHERE ...]
\* The largest id taken for the number of rows.
CountAll_maxId(tbl) ==
    IF DOMAIN tbl = {} THEN 0
    ELSE CHOOSE i \in DOMAIN tbl : \A j \in DOMAIN tbl : j <= i

CountAll(tbl) == Cardinality(DOMAIN tbl)

CountHighRisk(tbl) == Cardinality({i \in DOMAIN tbl : tbl[i].risk_level = "high"})

CountRecent(tbl) == Cardinality({i \in DOMAIN tbl : tbl[i].date >= StartOfMonth})

CountPatients(tbl) == Cardinality({tbl[i].patient_name : i \in DOMAIN tbl})

\* SELECT id ... ORDER BY date DESC: the ids, latest date first.
RECURSIVE OrderByDateDesc(_, _)
OrderByDateDesc(tbl, ids) ==
    IF ids = {} THEN <<>>
    ELSE LET top == CHOOSE i \in ids :
                       \A j \in ids : \/ tbl[i].date > tbl[j].date
                                      \/ (tbl[i].date = tbl[j].date /\ i <= j)
         IN  <<top>> \o OrderByDateDesc(tbl, ids \ {top})

AllScans(tbl) == OrderByDateDesc(tbl, DOMAIN tbl)

----------------------------------------------------------------------------
(* server/routes/index.js *)

NoStats == [totalScans |-> 0, highRiskCases |-> 0, recentScans |-> 0, activePatients |-> 0]

NoRow == Row("", "", "", "", 0)

NoReq == [patientName |-> "", scanType |-> "", file |-> NoFile]

NoBody == [scanId |-> 0, position |-> "", note |-> "", type |-> ""]

NoResp ==
    [op |-> "none", code |-> 0, id |-> 0, error |-> "", level |-> "",
     patient |-> "", scanStatus |-> "", ids |-> <<>>, stats |-> NoStats,
     caller |-> "", rows |-> <<>>, message |-> "", annId |-> <<>>, body |-> NoBody]

ErrorResp(op, code, id, msg) ==
    [NoResp EXCEPT !.op = op, !.code = code, !.id = id, !.error = msg]

\* getQuery('SELECT ... FROM scans WHERE id = ?'): the row or undefined.
SelectScan(tbl, id) == IF HasRow(tbl, id) THEN tbl[id] ELSE NoRow

\* A handler that never takes the not-found branch.
ScanNotFound_never(scan) == FALSE

\* if (!scan)
ScanNotFound(scan) == scan = NoRow

\* if (!patientName || !scanType)
MissingFields(patientName, scanType) == patientName = "" \/ scanType = ""

ValidStatuses == {"pending", "completed", "failed"}

\* A check of the presence of the status only.
InvalidStatus_presence(status) == status = ""

\* if (!['pending', 'completed', 'failed'].includes(status))
InvalidStatus(status) == status \notin ValidStatuses

\* A result that reports one change whether or not a row was deleted.
DeleteChanges_always(tbl, id) == 1

\* this.changes of 'DELETE FROM scans WHERE id = ?'
DeleteChanges(tbl, id) == IF HasRow(tbl, id) THEN 1 ELSE 0

\* The id of the result taken from this.changes instead of this.lastID.
InsertLastID_changes(rowid) == 1

\* this.lastID of the INSERT: the rowid of the row just inserted.
InsertLastID(rowid) == rowid

Without(tbl, id) == [i \in DOMAIN tbl \ {id} |-> tbl[i]]

\* GET /api/scans
ListScans ==
    /\ resp' = [NoResp EXCEPT !.op = "listScans", !.code = 200, !.ids = AllScans(scans)]
    /\ req' = NoReq
    /\ UNCHANGED <<scans, seq, uploaded, statsPc, stats, db, posted>>

\* GET /api/scans/:id
GetScan(id) ==
    LET scan == SelectScan(scans, id)
    IN  /\ resp' = IF ScanNotFound(scan)
                   THEN ErrorResp("getScan", 404, id, "Scan not found")
                   ELSE [NoResp EXCEPT !.op = "getScan", !.code = 200, !.id = id,
                                       !.patient = scan.patient_name,
                                       !.level = scan.risk_level,
                                       !.scanStatus = scan.status]
        /\ req' = NoReq
        /\ UNCHANGED <<scans, seq, uploaded, statsPc, stats, db, posted>>

\* POST /api/scans, upload.single('scan') and the error middleware included
UploadScan(patientName, scanType, file, r1, r2, r3) ==
    LET m == Multer(file)
    IN  /\ req' = [patientName |-> patientName, scanType |-> scanType, file |-> file]
        /\ IF m # "next"
           THEN /\ resp' = ErrorResp("upload", ErrorMiddlewareCode(m), 0,
                                     ErrorMiddlewareMessage(m))
                /\ UNCHANGED <<scans, seq, uploaded, statsPc, stats, db, posted>>
           ELSE IF MissingFields(patientName, scanType)
           THEN /\ resp' = ErrorResp("upload", 400, 0,
                                     "Patient name and scan type are required")
                /\ UNCHANGED <<scans, seq, uploaded, statsPc, stats, db, posted>>
           ELSE IF ~file.present
           THEN /\ resp' = ErrorResp("upload", 400, 0, "Scan file is required")
                /\ UNCHANGED <<scans, seq, uploaded, statsPc, stats, db, posted>>
           ELSE LET riskAssessment == getRiskAssessment(scanType, file, r1, r2, r3)
                    rowid  == NextRowId(seq)
                    result == RunQueryResult(InsertLastID(rowid), 1)
                IN  /\ scans' = (rowid :> Row(patientName, scanType, riskAssessment.level,
                                              "completed", rowid)) @@ scans
                    /\ seq' = rowid
                    /\ resp' = [NoResp EXCEPT !.op = "upload", !.code = 201,
                                              !.id = result.id,
                                              !.level = riskAssessment.level,
                                              !.patient = patientName,
                                              !.scanStatus = "completed"]
                    /\ uploaded' = (result.id :> [patient |-> patientName, updated |-> FALSE])
                                   @@ uploaded
                    /\ UNCHANGED <<statsPc, stats, db, posted>>

\* POST /api/scans/:id/status
UpdateStatus(id, status) ==
    /\ req' = NoReq
    /\ IF InvalidStatus(status)
       THEN /\ resp' = ErrorResp("status", 400, id, "Invalid status")
            /\ UNCHANGED <<scans, seq, uploaded, statsPc, stats, db, posted>>
       ELSE /\ scans' = [i \in DOMAIN scans |->
                           IF i = id THEN [scans[i] EXCEPT !.status = status] ELSE scans[i]]
            /\ resp' = [NoResp EXCEPT !.op = "status", !.code = 200, !.id = id]
            /\ uploaded' = [i \in DOMAIN uploaded |->
                              IF i = id THEN [uploaded[i] EXCEPT !.updated = TRUE]
                              ELSE uploaded[i]]
            /\ UNCHANGED <<seq, statsPc, stats, db, posted>>

\* DELETE /api/scans/:id
DeleteScan(id) ==
    LET result == RunQueryResult(0, DeleteChanges(scans, id))
    IN  /\ scans' = Without(scans, id)
        /\ resp' = IF result.changes = 0
                   THEN ErrorResp("delete", 404, id, "Scan not found")
                   ELSE [NoResp EXCEPT !.op = "delete", !.code = 200, !.id = id]
        /\ uploaded' = Without(uploaded, id)
        /\ req' = NoReq
        /\ UNCHANGED <<seq, statsPc, stats, db, posted>>

\* GET /api/stats: four queries, an await between each two
StatsTotal ==
    /\ statsPc = "total"
    /\ stats' = [NoStats EXCEPT !.totalScans = CountAll(scans)]
    /\ statsPc' = "highRisk"
    /\ UNCHANGED <<scans, seq, resp, req, uploaded, db, posted>>

StatsHighRisk ==
    /\ statsPc = "highRisk"
    /\ stats' = [stats EXCEPT !.highRiskCases = CountHighRisk(scans)]
    /\ statsPc' = "recent"
    /\ UNCHANGED <<scans, seq, resp, req, uploaded, db, posted>>

StatsRecent ==
    /\ statsPc = "recent"
    /\ stats' = [stats EXCEPT !.recentScans = CountRecent(scans)]
    /\ statsPc' = "active"
    /\ UNCHANGED <<scans, seq, resp, req, uploaded, db, posted>>

StatsActive ==
    /\ statsPc = "active"
    /\ LET result == [stats EXCEPT !.activePatients = CountPatients(scans)]
       IN  resp' = [NoResp EXCEPT !.op = "stats", !.code = 200, !.stats = result]
    /\ stats' = NoStats
    /\ statsPc' = "total"
    /\ req' = NoReq
    /\ UNCHANGED <<scans, seq, uploaded, db, posted>>

\* ORDER BY u.name of the users the program knows
UserNameOrder == <<"Admin User", "Dr. Johnson", "Dr. Smith", "Nurse Williams">>

RECURSIVE OrderByName(_, _)
OrderByName(rows, k) ==
    IF k > Len(UserNameOrder) THEN <<>>
    ELSE SelectSeq(rows, LAMBDA r : r.name = UserNameOrder[k]) \o OrderByName(rows, k + 1)

\* SELECT u.id, u.name, u.email, u.role, ..., COUNT(s.id) as scans_count
\* FROM users u LEFT JOIN scans s ON s.uploaded_by = u.name GROUP BY ... ORDER BY u.name
AllUsers(users, tbl) ==
    OrderByName([i \in DOMAIN users |->
                    [id |-> i, name |-> users[i].name, email |-> users[i].email,
                     role |-> users[i].role,
                     scans_count |-> Cardinality({j \in DOMAIN tbl :
                                                     UploadedBy(tbl[j]) = users[i].name})]],
                1)

\* GET /api/users, called by a client whose signed-in user has the role `role`
\* ("" : nobody is signed in); the handler reads no credential of the request
GetUsers(role) ==
    /\ resp' = [NoResp EXCEPT !.op = "users", !.code = 200, !.caller = role,
                              !.rows = AllUsers(db.users, scans)]
    /\ req' = NoReq
    /\ UNCHANGED <<scans, seq, uploaded, statsPc, stats, db, posted>>

\* A handler that selects the annotations of the scan from the table.
AnnotationsOf_table(tbl, scanId) == SelectSeq(tbl, LAMBDA a : a.scan_id = scanId)

\* "For now, return empty array": res.json([])
AnnotationsOf(tbl, scanId) == <<>>

\* POST /api/annotations; now: Date.now()
PostAnnotation(body, now) ==
    /\ resp' = [NoResp EXCEPT !.op = "postAnnotation", !.code = 201,
                              !.message = "Annotation saved successfully",
                              !.annId = <<"ann-", now>>,
                              !.body = [scanId |-> body.scanId, position |-> body.position,
                                        note |-> body.note, type |-> body.type]]
    /\ req' = NoReq
    /\ posted' = posted \cup {body.scanId}
    /\ UNCHANGED <<scans, seq, uploaded, statsPc, stats, db>>

\* GET /api/annotations/:scanId
GetAnnotations(scanId) ==
    /\ resp' = [NoResp EXCEPT !.op = "getAnnotations", !.code = 200, !.id = scanId,
                              !.rows = AnnotationsOf(db.scan_annotations, scanId)]
    /\ req' = NoReq
    /\ UNCHANGED <<scans, seq, uploaded, statsPc, stats, db, posted>>

----------------------------------------------------------------------------
(* The 3D viewer components.  A scene, its camera and its renderer are     *)
(* created together and are numbered 1, 2, ...; 0 is a ref that holds null. *)
(* A canvas is known by the number of its renderer.                        *)

\* README: "React 18 + TypeScript".  From React 17 on, the refs of an
\* unmounted subtree are detached in the commit, before the cleanup functions
\* of useEffect run.
ReactVersion == 18

RefDetachedBeforeCleanup == ReactVersion >= 17

\* scanA is a scan of risk level high, scanB one of risk level low.
ScanProps == {"scanA", "scanB"}

LayerNames == {"bone", "vessels", "tumor"}

(* ThreeDVisualization *)

TdvNew ==
    [phase |-> "new", mountRef |-> FALSE, scan |-> "", scenes |-> 0,
     sceneRef |-> 0, rendererRef |-> 0, cameraRef |-> 0,
     canvases |-> {}, disposed |-> {},
     timers |-> {}, animationIdRef |-> 0, frames |-> {}, draws |-> 0,
     isAnimating |-> TRUE, viewMode |-> "rotate", rotated |-> FALSE,
     removed |-> 0, threw |-> FALSE,
     layers |-> [l \in LayerNames |-> TRUE],
     objects |-> [l \in LayerNames |-> "none"]]

\* createAnatomicalStructures: objectsRef.current is reset and holds the new
\* groups, a tumor group for a scan of risk level high only; a new
\* THREE.Group is visible.  "none" is a layer with no object.
CreateAnatomicalStructures(scan) ==
    [l \in LayerNames |-> IF l = "tumor" /\ scan # "scanA" THEN "none" ELSE "visible"]

\* toggleLayer: the state is negated and the objects of the layer get it.
ToggleLayer(v, layerName) ==
    LET newLayers == [v.layers EXCEPT ![layerName] = ~@]
    IN  [v EXCEPT !.layers = newLayers,
                  !.objects[layerName] =
                      IF @ = "none" THEN "none"
                      ELSE IF newLayers[layerName] THEN "visible" ELSE "hidden"]

\* The functions of one render: the values of the render's state they close over.
TdvClosure(v) == [isAnimating |-> v.isAnimating, viewMode |-> v.viewMode]

\* initializeScene
TdvInitializeScene(v) ==
    LET n == v.scenes + 1
    IN  [v EXCEPT !.scenes = n,
                  !.sceneRef = n, !.cameraRef = n, !.rendererRef = n,
                  !.canvases = IF v.mountRef THEN @ \cup {n} ELSE @,
                  !.objects = CreateAnatomicalStructures(v.scan),
                  !.timers = @ \cup {[scene |-> n, closure |-> TdvClosure(v)]}]

\* if (isAnimating && viewMode === 'rotate'), in the function `animate` of the
\* render `closure`
TdvRotates(v, closure) == closure.isAnimating /\ closure.viewMode = "rotate"

\* animate, as the render `closure` defined it; `rotated` tells whether the
\* tick turned the scene (sceneRef.current.rotation.y += 0.005)
TdvAnimate(v, closure) ==
    IF v.sceneRef = 0 \/ v.rendererRef = 0 \/ v.cameraRef = 0 THEN v
    ELSE LET id == v.draws + 1
         IN  [v EXCEPT !.animationIdRef = id,
                       !.frames = @ \cup {[id |-> id, closure |-> closure]},
                       !.rotated = TdvRotates(v, closure),
                       !.draws = id]

\* cleanup; removeChild throws when the node is no child of the mount point
TdvCleanup(v) ==
    LET v1 == IF v.animationIdRef # 0
              THEN [v EXCEPT !.frames = {f \in @ : f.id # v.animationIdRef}]
              ELSE v
        remove == v1.mountRef /\ v1.rendererRef # 0
    IN  IF remove /\ v1.rendererRef \notin v1.canvases
        THEN [v1 EXCEPT !.removed = 0, !.threw = TRUE]
        ELSE [v1 EXCEPT !.canvases = IF remove THEN @ \ {v1.rendererRef} ELSE @,
                        !.removed = IF remove THEN 1 ELSE 0,
                        !.disposed = IF v1.rendererRef # 0 THEN @ \cup {v1.rendererRef}
                                     ELSE @]

\* The effect on [scan]: if (!mountRef.current) return; initializeScene()
TdvEffect(v) == IF ~v.mountRef THEN v ELSE TdvInitializeScene(v)

TdvMount(scan) ==
    /\ tdv.phase = "new"
    /\ tdv' = TdvEffect([tdv EXCEPT !.phase = "mounted", !.mountRef = TRUE, !.scan = scan])
    /\ UNCHANGED sps

\* The parent passes another scan: cleanup of the last effect, then the effect.
TdvScanChange(scan) ==
    /\ tdv.phase = "mounted"
    /\ scan # tdv.scan
    /\ tdv.scenes < MaxScenes
    /\ tdv' = TdvEffect(TdvCleanup([tdv EXCEPT !.scan = scan]))
    /\ UNCHANGED sps

\* The callback of setTimeout(..., 1500): setIsLoading(false); animate()
TdvTimeout(t) ==
    /\ t \in tdv.timers
    /\ tdv.draws < MaxFrames
    /\ tdv' = TdvAnimate([tdv EXCEPT !.timers = @ \ {t}], t.closure)
    /\ UNCHANGED sps

\* An animation frame: the callback requestAnimationFrame was given
TdvFrame(f) ==
    /\ f \in tdv.frames
    /\ tdv.draws < MaxFrames
    /\ tdv' = TdvAnimate([tdv EXCEPT !.frames = @ \ {f}], f.closure)
    /\ UNCHANGED sps

TdvToggleAnimation ==
    /\ tdv.phase = "mounted"
    /\ tdv' = [tdv EXCEPT !.isAnimating = ~@]
    /\ UNCHANGED sps

\* onClick of a layer button
TdvToggleLayer(layerName) ==
    /\ tdv.phase = "mounted"
    /\ tdv' = ToggleLayer(tdv, layerName)
    /\ UNCHANGED sps

TdvToggleViewMode ==
    /\ tdv.phase = "mounted"
    /\ tdv' = [tdv EXCEPT !.viewMode = IF @ = "rotate" THEN "static" ELSE "rotate"]
    /\ UNCHANGED sps

\* The component leaves the tree: React detaches the ref of the mount point
\* and runs the cleanup of the effect.
TdvUnmount ==
    /\ tdv.phase = "mounted"
    /\ tdv' = TdvCleanup([tdv EXCEPT !.phase = "unmounted",
                                     !.mountRef = IF RefDetachedBeforeCleanup
                                                  THEN FALSE ELSE @])
    /\ UNCHANGED sps

(* SurgicalPathSimulator (DigitalTwinSimulator has the same effect, animate *)
(* and cleanup)                                                             *)

SpsNew ==
    [phase |-> "new", mountRef |-> FALSE,
     sceneRef |-> 0, rendererRef |-> 0, cameraRef |-> 0,
     canvases |-> {}, disposed |-> {}, frames |-> {}, draws |-> 0,
     removed |-> 0, threw |-> FALSE]

\* animate
SpsAnimate(v) ==
    IF v.sceneRef = 0 \/ v.rendererRef = 0 \/ v.cameraRef = 0 THEN v
    ELSE [v EXCEPT !.frames = @ \cup {v.draws + 1}, !.draws = @ + 1]

\* initializeViewer
SpsInitializeViewer(v) ==
    IF ~v.mountRef THEN v
    ELSE SpsAnimate([v EXCEPT !.sceneRef = 1, !.cameraRef = 1, !.rendererRef = 1,
                              !.canvases = @ \cup {1}])

\* cleanup
SpsCleanup(v) ==
    LET remove == v.mountRef /\ v.rendererRef # 0
    IN  IF remove /\ v.rendererRef \notin v.canvases
        THEN [v EXCEPT !.removed = 0, !.threw = TRUE]
        ELSE [v EXCEPT !.canvases = IF remove THEN @ \ {v.rendererRef} ELSE @,
                       !.removed = IF remove THEN 1 ELSE 0,
                       !.disposed = IF v.rendererRef # 0 THEN @ \cup {v.rendererRef}
                                    ELSE @]

SpsMount ==
    /\ sps.phase = "new"
    /\ sps' = SpsInitializeViewer([sps EXCEPT !.phase = "mounted", !.mountRef = TRUE])
    /\ UNCHANGED tdv

SpsFrame(f) ==
    /\ f \in sps.frames
    /\ sps.draws < MaxFrames
    /\ sps' = SpsAnimate([sps EXCEPT !.frames = @ \ {f}])
    /\ UNCHANGED tdv

SpsUnmount ==
    /\ sps.phase = "mounted"
    /\ sps' = SpsCleanup([sps EXCEPT !.phase = "unmounted",
                                     !.mountRef = IF RefDetachedBeforeCleanup
                                                  THEN FALSE ELSE @])
    /\ UNCHANGED tdv

(* ModelViewer (EnhancedModelViewer has the same effect, animate, click     *)
(* handler and cleanup, on [scanId])                                       *)

ModelUrls == {"/uploads/models/1.glb", "/uploads/models/2.glb"}

\* The answers of prompt('Add annotation note:'): null (cancelled), the empty
\* string, blanks only, a text with blanks around it.
NoteInputs == {<<"null">>, <<>>, <<" ">>, <<" ", "margin", " ">>}

RECURSIVE TrimStart(_)
TrimStart(note) ==
    IF note # <<>> /\ Head(note) = " " THEN TrimStart(Tail(note)) ELSE note

RECURSIVE TrimEnd(_)
TrimEnd(note) ==
    IF note # <<>> /\ note[Len(note)] = " "
    THEN TrimEnd(SubSeq(note, 1, Len(note) - 1)) ELSE note

\* note.trim()
Trim(note) == TrimEnd(TrimStart(note))

\* if (note && note.trim())
NoteGiven(note) == note # <<"null">> /\ note # <<>> /\ Trim(note) # <<>>

NoClick == [canvas |-> 0, mode |-> FALSE, hit |-> FALSE, note |-> <<>>,
            added |-> FALSE, reported |-> FALSE]

MvNew ==
    [phase |-> "new", mountRef |-> FALSE, modelUrl |-> "", scenes |-> 0,
     sceneRef |-> 0, rendererRef |-> 0, cameraRef |-> 0, modelRef |-> 0,
     canvases |-> {}, disposed |-> {}, listeners |-> {}, loads |-> {},
     frames |-> {}, draws |-> 0,
     annotationMode |-> FALSE, markers |-> 0, reports |-> 0, click |-> NoClick]

\* animate
MvAnimate(v) ==
    IF v.sceneRef = 0 \/ v.rendererRef = 0 \/ v.cameraRef = 0 THEN v
    ELSE [v EXCEPT !.frames = @ \cup {v.draws + 1}, !.draws = @ + 1]

\* renderer.domElement.addEventListener('click', handleCanvasClick): the
\* function handleCanvasClick of the render the effect belongs to, with the
\* annotationMode of that render
MvListener(v, n) == [canvas |-> n, annotationMode |-> v.annotationMode]

\* initializeViewer
MvInitializeViewer(v) ==
    IF ~v.mountRef THEN v
    ELSE LET n == v.scenes + 1
         IN  MvAnimate([v EXCEPT !.scenes = n,
                                 !.sceneRef = n, !.cameraRef = n, !.rendererRef = n,
                                 !.canvases = @ \cup {n},
                                 !.listeners = @ \cup {MvListener(v, n)}])

\* loadModel up to its await: the load is pending
MvLoadModel(v) ==
    IF v.sceneRef = 0 THEN v ELSE [v EXCEPT !.loads = @ \cup {v.scenes}]

\* setupModel: the model is added to the scene sceneRef holds
MvSetupModel(v) ==
    IF v.sceneRef = 0 \/ v.cameraRef = 0 THEN v ELSE [v EXCEPT !.modelRef = v.sceneRef]

\* cleanup
MvCleanup(v) ==
    LET remove == v.mountRef /\ v.rendererRef # 0
    IN  [v EXCEPT !.canvases = IF remove THEN @ \ {v.rendererRef} ELSE @,
                  !.disposed = IF v.rendererRef # 0 THEN @ \cup {v.rendererRef} ELSE @]

\* The effect on [modelUrl]
MvEffect(v) == IF ~v.mountRef THEN v ELSE MvLoadModel(MvInitializeViewer(v))

\* handleCanvasClick, as the listener l holds it; hit: the ray through the
\* click point meets the model (intersects.length > 0)
MvHandleCanvasClick(v, l, hit, note) ==
    LET mode == l.annotationMode
        c == [NoClick EXCEPT !.canvas = l.canvas, !.mode = v.annotationMode,
                             !.hit = hit /\ v.modelRef # 0, !.note = note]
    IN  IF ~mode \/ v.cameraRef = 0 \/ v.sceneRef = 0 \/ v.modelRef = 0
        THEN [v EXCEPT !.click = c]
        ELSE IF hit /\ NoteGiven(note)
        THEN [v EXCEPT !.reports = @ + 1,     \* onAnnotationAdd(point, note.trim(), type)
                       !.markers = @ + 1,     \* addAnnotationMarker
                       !.click = [c EXCEPT !.added = TRUE, !.reported = TRUE]]
        ELSE [v EXCEPT !.click = c]

MvMount(url) ==
    /\ mv.phase = "new"
    /\ mv' = MvEffect([mv EXCEPT !.phase = "mounted", !.mountRef = TRUE, !.modelUrl = url])

\* The page passes another modelUrl: cleanup of the last effect, then the effect.
MvUrlChange(url) ==
    /\ mv.phase = "mounted"
    /\ url # mv.modelUrl
    /\ mv.scenes < MaxScenes
    /\ mv' = MvEffect(MvCleanup([mv EXCEPT !.modelUrl = url]))

\* The promise of loader.load settles (the demo model when the file is missing)
MvModelLoaded(n) ==
    /\ n \in mv.loads
    /\ mv' = MvSetupModel([mv EXCEPT !.loads = @ \ {n}])

MvFrame(f) ==
    /\ f \in mv.frames
    /\ mv.draws < MaxFrames
    /\ mv' = MvAnimate([mv EXCEPT !.frames = @ \ {f}])

\* onClick={() => setAnnotationMode(!annotationMode)}
MvToggleAnnotationMode ==
    /\ mv.phase = "mounted"
    /\ mv' = [mv EXCEPT !.annotationMode = ~@]

\* A click on the canvas in the document
MvClick(l, hit, note) ==
    /\ mv.phase = "mounted"
    /\ l \in mv.listeners
    /\ l.canvas \in mv.canvases
    /\ mv.markers < MaxMarkers
    /\ mv' = MvHandleCanvasClick(mv, l, hit, note)

MvUnmount ==
    /\ mv.phase = "mounted"
    /\ mv' = MvCleanup([mv EXCEPT !.phase = "unmounted",
                                  !.mountRef = IF RefDetachedBeforeCleanup
                                               THEN FALSE ELSE @])

(* MedicalSliceViewer: a 2D canvas redrawn by an effect.  Lengths are in    *)
(* CSS pixels; a normalised coordinate is kept as the exact ratio num/den. *)

TotalSlices == 12        \* useState(12)
CanvasWidth == 400       \* <canvas width={400}
CanvasHeight == 400      \*         height={400}
DisplayHeight == 384     \* className "h-96": 24rem
DisplayWidths == {400, 800}   \* className "w-full": the width of the container

OverlayNames == {"ventricles", "vessels", "contours"}

ClickPoints == {"centre", "corner"}

\* event.clientX - rect.left, event.clientY - rect.top of a click inside the
\* canvas: its centre, or its last pixel
ClickOffset(rect, point) ==
    IF point = "centre"
    THEN [x |-> rect.width \div 2, y |-> rect.height \div 2]
    ELSE [x |-> rect.width - 1, y |-> rect.height - 1]

Ratio(n, d) == [num |-> n, den |-> d]

\* annotation.x * ctx.canvas.width
Times(r, n) == (r.num * n) \div r.den

\* What drawSlice paints: the slice, the overlays, the annotation markers.
DrawnContent(v) ==
    [slice    |-> v.currentSlice,
     overlays |-> {o \in OverlayNames : v.overlays[o]},
     markers  |-> IF v.showAnnotations
                  THEN {[x |-> Times(v.annotations[i].x, v.canvas.width),
                         y |-> Times(v.annotations[i].y, v.canvas.height)] :
                            i \in {j \in DOMAIN v.annotations :
                                      v.annotations[j].slice = v.currentSlice}}
                  ELSE {}]

\* A redraw that first fits the canvas to its displayed size.
DrawSlice_fit(v) ==
    LET w == [v EXCEPT !.canvas = [width |-> v.rect.width, height |-> v.rect.height]]
    IN  [w EXCEPT !.drawn = DrawnContent(w)]

\* drawSlice
DrawSlice(v) == [v EXCEPT !.drawn = DrawnContent(v)]

\* A render: the effect runs when one of its dependencies
\* [currentSlice, zoom, showAnnotations, overlays] has changed.
MsvRender(old, new) ==
    IF \/ new.currentSlice # old.currentSlice
       \/ new.showAnnotations # old.showAnnotations
       \/ new.overlays # old.overlays
    THEN DrawSlice(new)
    ELSE new

\* The component after its first render and effect.
MsvMounted ==
    DrawSlice([currentSlice |-> 0, annotations |-> <<>>,
               showAnnotations |-> TRUE, annotationMode |-> FALSE,
               overlays |-> [o \in OverlayNames |-> TRUE],
               canvas |-> [width |-> CanvasWidth, height |-> CanvasHeight],
               rect |-> [width |-> CanvasWidth, height |-> DisplayHeight],
               drawn |-> [slice |-> 0, overlays |-> {}, markers |-> {}],
               reports |-> 0, last |-> "mount"])

Min(a, b) == IF a < b THEN a ELSE b

Max(a, b) == IF a > b THEN a ELSE b

\* nextSlice
MsvNextSlice ==
    /\ msv.currentSlice < MaxSlice
    /\ msv' = MsvRender(msv, [msv EXCEPT !.currentSlice = Min(@ + 1, TotalSlices - 1),
                                         !.last = "slice"])

\* prevSlice
MsvPrevSlice ==
    /\ msv' = MsvRender(msv, [msv EXCEPT !.currentSlice = Max(@ - 1, 0),
                                         !.last = "slice"])

\* setOverlays(prev => ({ ...prev, [o]: !prev[o] }))
MsvToggleOverlay(o) ==
    /\ msv' = MsvRender(msv, [msv EXCEPT !.overlays[o] = ~@, !.last = "overlay"])

\* setShowAnnotations(!showAnnotations)
MsvToggleShowAnnotations ==
    /\ msv' = MsvRender(msv, [msv EXCEPT !.showAnnotations = ~@, !.last = "show"])

\* setAnnotationMode(!annotationMode)
MsvToggleAnnotationMode ==
    /\ msv' = MsvRender(msv, [msv EXCEPT !.annotationMode = ~@, !.last = "mode"])

\* The container changes its width; the canvas element keeps its attributes.
MsvResize(w) ==
    /\ w # msv.rect.width
    /\ msv' = [msv EXCEPT !.rect.width = w, !.last = "resize"]

\* handleCanvasClick
MsvHandleCanvasClick(v, point, note) ==
    IF ~v.annotationMode THEN v
    ELSE LET off == ClickOffset(v.rect, point)
             x == Ratio(off.x, v.canvas.width)
             y == Ratio(off.y, v.canvas.height)
         IN  IF NoteGiven(note)
             THEN [v EXCEPT !.annotations =
                                Append(@, [slice |-> v.currentSlice, x |-> x, y |-> y,
                                           note |-> Trim(note)]),
                            !.reports = @ + 1]
             ELSE v

MsvClick(point, note) ==
    /\ Len(msv.annotations) < MaxAnnotations
    /\ msv' = MsvRender(msv, MsvHandleCanvasClick([msv EXCEPT !.last = "click"], point, note))

(* AuthContext: AuthProvider *)

NoUser == [id |-> "", name |-> "", role |-> "", email |-> ""]

\* demoUser of autoLogin
DemoUser ==
    [id |-> "1", name |-> "Dr. Smith", role |-> "surgeon", email |-> "dr.smith@hospital.com"]

\* A login that signs in the demo user of autoLogin.
LoginUser_demo(email) == DemoUser

\* demoUser of login
LoginUser(email) ==
    [id |-> "1", name |-> "Dr. Smith", role |-> "surgeon", email |-> email]

Emails == {"", "dr.smith@hospital.com", "nurse.williams@hospital.com"}

Passwords == {"", "secret"}

\* The provider after its first render and effect: autoLogin waits for its timer.
AuthMounted ==
    [user |-> NoUser, loading |-> TRUE, autoLogin |-> TRUE, logins |-> {},
     calls |-> 0, last |-> "mount", lastEmail |-> ""]

\* autoLogin after its await
AuthAutoLoginDone ==
    /\ auth.autoLogin
    /\ auth' = [auth EXCEPT !.autoLogin = FALSE, !.user = DemoUser, !.loading = FALSE,
                            !.last = "autoLogin"]

\* login(email, password) up to its await
AuthLogin(email, password) ==
    /\ auth.calls < MaxLogins
    /\ auth' = [auth EXCEPT !.loading = TRUE, !.calls = @ + 1,
                            !.logins = @ \cup {[call |-> auth.calls + 1, email |-> email]}]

\* login after its await
AuthLoginDone(l) ==
    /\ l \in auth.logins
    /\ auth' = [auth EXCEPT !.logins = @ \ {l}, !.user = LoginUser(l.email),
                            !.loading = FALSE, !.last = "login", !.lastEmail = l.email]

\* logout
AuthLogout ==
    /\ auth.user # NoUser
    /\ auth' = [auth EXCEPT !.user = NoUser, !.last = "logout"]

(* server/config/db.js and server/index.js: the start of the server.       *)
(* The rows of one table are stored in the order of their statements; the  *)
(* inserts of different tables complete in any order.                      *)

TotalOperations == 12     \* const totalOperations = 12

SampleTables == {"patients", "scans", "users", "scan_annotations"}

\* The rows insertSampleData has a statement for
SampleRows(t) ==
    CASE t = "patients" -> Len(SamplePatients)
      [] t = "scans"    -> Len(SampleScans)
      [] t = "users"    -> Len(SampleUsers)
      [] OTHER          -> Len(SampleAnnotations)

\* The INSERT statements insertSampleData issues
SampleStatements ==
    Len(SamplePatients) + Len(SampleScans) + Len(SampleUsers) + Len(SampleAnnotations)

\* The rows of table t that are stored
StoredRows(t) ==
    CASE t = "patients" -> Len(db.patients)
      [] t = "scans"    -> CountAll(scans)
      [] t = "users"    -> Len(db.users)
      [] OTHER          -> Len(db.scan_annotations)

\* The process before initializeDatabase, and once it listens with every
\* statement completed
BootFresh ==
    [phase |-> "start", pending |-> [t \in SampleTables |-> 0],
     completedOperations |-> 0, resolved |-> FALSE, listening |-> FALSE]

BootDone ==
    [phase |-> "inserting", pending |-> [t \in SampleTables |-> 0],
     completedOperations |-> SampleStatements, resolved |-> TRUE, listening |-> TRUE]

\* checkComplete: if (completedOperations >= totalOperations) callback()
CheckComplete(n) == n >= TotalOperations

\* initializeDatabase up to insertSampleData: the tables are created, the
\* count of scans is read and, the table being empty, every INSERT is issued
BootInsertSampleData ==
    /\ boot.phase = "start"
    /\ boot' = IF CountAll(scans) = 0
               THEN [boot EXCEPT !.phase = "inserting",
                                 !.pending = [t \in SampleTables |-> SampleRows(t)]]
               ELSE [boot EXCEPT !.phase = "inserting", !.resolved = TRUE]
    /\ UNCHANGED <<scans, seq, db>>

\* The callback of one INSERT into table t: the row is stored; checkComplete()
BootInsertDone(t) ==
    /\ boot.phase = "inserting"
    /\ boot.pending[t] > 0
    /\ LET k == SampleRows(t) - boot.pending[t] + 1
           n == boot.completedOperations + 1
       IN  /\ IF t = "scans"
              THEN /\ scans' = (NextRowId(seq) :> SampleScans[k]) @@ scans
                   /\ seq' = NextRowId(seq)
                   /\ db' = db
              ELSE /\ db' = [db EXCEPT ![t] = Append(@, CASE t = "patients" -> SamplePatients[k]
                                                          [] t = "users" -> SampleUsers[k]
                                                          [] OTHER -> SampleAnnotations[k])]
                   /\ UNCHANGED <<scans, seq>>
           /\ boot' = [boot EXCEPT !.pending[t] = @ - 1,
                                   !.completedOperations = n,
                                   !.resolved = @ \/ CheckComplete(n)]

\* startServer after `await initializeDatabase()`: app.listen
BootListen ==
    /\ boot.resolved
    /\ ~boot.listening
    /\ boot' = [boot EXCEPT !.listening = TRUE]
    /\ UNCHANGED <<scans, seq, db>>

\* A request to GET /api/scans, once the server listens
BootListScans ==
    /\ boot.listening
    /\ ListScans
    /\ UNCHANGED boot

----------------------------------------------------------------------------
ApiInit ==
    /\ scans = [i \in 1..NumSampleScans |-> SampleScans[i]]
    /\ seq = NumSampleScans
    /\ resp = NoResp
    /\ req = NoReq
    /\ uploaded = <<>>
    /\ statsPc = "total"
    /\ stats = NoStats
    /\ db = [patients |-> SamplePatients, users |-> SampleUsers,
             scan_annotations |-> SampleAnnotations]
    /\ posted = {}

ViewerIdle ==
    /\ tdv = TdvNew
    /\ sps = SpsNew

ModelViewerIdle == mv = MvNew

SliceViewerMounted == msv = MsvMounted

AuthProviderMounted == auth = AuthMounted

ServerListening == boot = BootDone

----------------------------------------------------------------------------
(* The scan viewer pages: Visualizer, EnhancedVisualizer, AdvancedAnalytics and
   ProfessionalVisualizer share one fetchScanData and one render *)

MaxNavigations == 3

\* The scanIds of the links followed: two sample scans and an id of no scan.
PageIds == {1, 2, NumSampleScans + 3}

\* A page mounted at /visualizer/1: useState(null), useState(true),
\* useState(null), and the effect has called fetchScanData("1").
\* scan = 0 is null, error = "" is null; fetch and settled number the calls of
\* fetchScanData, inflight holds those awaiting their response.
PageMounted ==
    [scanId |-> 1, scan |-> 0, loading |-> TRUE, error |-> "", fetch |-> 1,
     inflight |-> {[n |-> 1, id |-> 1]}, settled |-> {}]

\* What the render returns: the spinner, the "not found" panel, or the viewer.
PageShows(p) ==
    IF p.loading THEN "loading"
    ELSE IF p.error # "" \/ p.scan = 0 THEN "not found"
    ELSE "viewer"

\* fetchScanData up to its await: setLoading(true) and the request is sent.
FetchScanData(p, id) ==
    [p EXCEPT !.loading = TRUE, !.fetch = p.fetch + 1,
              !.inflight = p.inflight \cup {[n |-> p.fetch + 1, id |-> id]}]

\* fetchScanData after its await, by the outcome of the request, and finally.
FetchScanDataSettled(p, f, outcome) ==
    [p EXCEPT !.scan = IF outcome = "ok" THEN f.id ELSE p.scan,
              !.error = CASE outcome = "ok" -> p.error
                          [] outcome = "not ok" -> "Scan not found"
                          [] OTHER -> "Failed to load scan data",
              !.loading = FALSE,
              !.inflight = p.inflight \ {f},
              !.settled = p.settled \cup {<<f.n, outcome>>}]

----------------------------------------------------------------------------
(* The Dashboard *)

MaxTicks == 3

\* The Dashboard after its first render and its effect: useState([]),
\* useState(null), useState(true); fetchScans() is called once and
\* setInterval(fetchScans, 10000) keeps the fetchScans of this render, in
\* whose scope selectedScan is null (closure = 0).
DashMounted ==
    [scans |-> <<>>, selectedScan |-> 0, loading |-> TRUE, inflight |-> 1,
     ticks |-> 0, closure |-> 0]

\* fetchScans after its await: the list is stored and, when the list is not
\* empty and the selectedScan of the function's scope is null, data[0] is
\* selected; finally setLoading(false).
FetchScansSettled(d, ok, data) ==
    [d EXCEPT !.scans = IF ok THEN data ELSE d.scans,
              !.selectedScan = IF ok /\ Len(data) > 0 /\ d.closure = 0
                               THEN data[1] ELSE d.selectedScan,
              !.loading = FALSE,
              !.inflight = d.inflight - 1]

----------------------------------------------------------------------------
(* AIMultiModalAnalysis *)

MaxToggles == 2

\* for (let step = 0; step <= 100; step += 5)
StepIncrement == 5

LastStep == 100

\* aiModels, by id, in the order of the array
AiModels == <<"deepmind", "watson", "google", "surgical", "radiology">>

\* useState({deepMind: true, ibmWatson: true, ...}): an object, key -> value
InitialSelectedModels ==
    [k \in {"deepMind", "ibmWatson", "googleMedAI", "surgicalVisionAI", "radiologyGPT"}
        |-> TRUE]

\* selectedModels[model.id]: the value of the key, undefined (falsy) when the
\* object has no such key; keys are compared as strings, case and all.
IsSelected(selectedModels, id) ==
    id \in DOMAIN selectedModels /\ selectedModels[id]

\* aiModels.filter(model => selectedModels[model.id])
SelectedModelsList(selectedModels) ==
    SelectSeq(AiModels, LAMBDA id : IsSelected(selectedModels, id))

\* {...prev, [model.id]: e.target.checked}
WithModel(prev, id, checked) ==
    [k \in DOMAIN prev \cup {id} |-> IF k = id THEN checked ELSE prev[k]]

\* The component after its first render.  list, index and step are the locals
\* of a run of startMultiModalAnalysis; completed and startedWith record the
\* last run that reached its end and the selection it started with.
AiMounted ==
    [isAnalyzing |-> FALSE, progress |-> <<0, 1>>, currentModel |-> "",
     results |-> <<>>, selectedModels |-> InitialSelectedModels, toggles |-> 0,
     list |-> <<>>, index |-> 0, step |-> 0,
     completed |-> FALSE, startedWith |-> InitialSelectedModels]

\* The end of startMultiModalAnalysis, after its loop.
AiAfterLoop(a) ==
    [a EXCEPT !.isAnalyzing = FALSE, !.currentModel = "", !.completed = TRUE]

\* The head of the loop at index i: past the list the loop is left, else
\* setCurrentModel and simulateAIAnalysis up to its first await.
AiLoop(a, i) ==
    IF i > Len(a.list) THEN AiAfterLoop(a)
    ELSE [a EXCEPT !.index = i, !.step = 0, !.currentModel = a.list[i]]

\* startMultiModalAnalysis up to its first await
StartMultiModalAnalysis(a) ==
    AiLoop([a EXCEPT !.isAnalyzing = TRUE, !.progress = <<0, 1>>, !.results = <<>>,
                     !.list = SelectedModelsList(a.selectedModels),
                     !.completed = FALSE, !.startedWith = a.selectedModels], 1)

\* simulateAIAnalysis after a timeout of 50 ms: setProgress(((index * 100) +
\* step) / total), a fraction here, with the index counted from 0; after the
\* last step the result is appended and the loop of the caller goes on.
SimulateAIAnalysisStep(a) ==
    LET a1 == [a EXCEPT !.progress = <<((a.index - 1) * 100) + a.step, Len(a.list)>>]
    IN  IF a.step + StepIncrement <= LastStep
        THEN [a1 EXCEPT !.step = a.step + StepIncrement]
        ELSE AiLoop([a1 EXCEPT !.results = Append(@, a.list[a.index])], a.index + 1)

----------------------------------------------------------------------------
(* DigitalTwinSimulator: the simulation run *)

\* simulationScenarios: id -> duration (seconds) and outcomes
SimulationScenarios ==
    [id \in {"tumor-resection", "vessel-bypass", "biopsy-procedure",
             "awake-craniotomy", "emergency-evacuation"} |->
        CASE id = "tumor-resection" ->
               [duration |-> 180,
                outcomes |-> <<"Complete resection", "Partial resection",
                               "Complications detected">>]
          [] id = "vessel-bypass" ->
               [duration |-> 240,
                outcomes |-> <<"Successful bypass", "Flow complications",
                               "Anastomosis issues">>]
          [] id = "biopsy-procedure" ->
               [duration |-> 60,
                outcomes |-> <<"Successful sampling", "Target missed",
                               "Bleeding complications">>]
          [] id = "awake-craniotomy" ->
               [duration |-> 300,
                outcomes |-> <<"Preserved function", "Temporary deficits",
                               "Permanent changes">>]
          [] OTHER ->
               [duration |-> 90,
                outcomes |-> <<"Pressure relieved", "Rebleeding", "Brain herniation">>]]

\* A JavaScript value of the state simulationResults: an array of results, or
\* one result object.
ArrayOf(items) == [kind |-> "array", items |-> items, outcome |-> ""]

ResultObject(outcome) == [kind |-> "object", items |-> <<>>, outcome |-> outcome]

\* value.length: the length of an array; undefined on an object without the
\* property.
LengthOf(value) ==
    IF value.kind = "array" THEN [defined |-> TRUE, number |-> Len(value.items)]
    ELSE [defined |-> FALSE, number |-> 0]

\* x > 0: undefined converts to NaN, and NaN > 0 is false.
GreaterThanZero(x) == x.defined /\ x.number > 0

\* const steps = scenario.duration / 10
StepsOf(scenario) == SimulationScenarios[scenario].duration \div 10

\* ((step + 1) / steps) * 100, as the fraction <<numerator, denominator>>
ProgressAt(step, steps) == <<(step + 1) * 100, steps>>

IsPercent(progress, percent) == progress[1] = percent * progress[2]

\* The component after its first render.
TwinMounted ==
    [isSimulating |-> FALSE, simulationProgress |-> <<0, 1>>, currentScenario |-> "",
     simulationResults |-> ArrayOf(<<>>), step |-> 0, realTimeMode |-> TRUE]

\* generateSimulationResults: one object; the outcome by Math.random()
GenerateSimulationResults(scenario, draw) ==
    ResultObject(SimulationScenarios[scenario].outcomes[draw])

\* startSimulation up to its first await
StartSimulation(t, scenario) ==
    [t EXCEPT !.currentScenario = scenario, !.isSimulating = TRUE,
              !.simulationProgress = <<0, 1>>, !.simulationResults = ArrayOf(<<>>),
              !.step = 0]

\* startSimulation after a timeout: the progress of the step; after the last
\* step the results are generated and stored and isSimulating is reset.
SimulationStep(t, draw) ==
    LET steps == StepsOf(t.currentScenario)
        t1 == [t EXCEPT !.simulationProgress = ProgressAt(t.step, steps),
                        !.step = t.step + 1]
    IN  IF t1.step < steps THEN t1
        ELSE [t1 EXCEPT !.simulationResults =
                            GenerateSimulationResults(t.currentScenario, draw),
                        !.isSimulating = FALSE]

\* The "Simulation Status" column of the render.
SimulationStatus(t) ==
    IF t.isSimulating THEN "Running Simulation"
    ELSE IF GreaterThanZero(LengthOf(t.simulationResults)) THEN "Simulation Complete"
    ELSE "Ready to simulate"

\* The panel "Simulation Results & Analysis" of the render: absent, shown, or
\* the render throws (simulationResults.map on a value that is no array).
ResultsPanel(t) ==
    IF ~GreaterThanZero(LengthOf(t.simulationResults)) THEN "absent"
    ELSE IF t.simulationResults.kind = "array" THEN "shown"
    ELSE "throws"

----------------------------------------------------------------------------
(* The AR guidance component (startARSession, stopARSession) *)

MaxSessions == 2

\* progress += 10 ... if (progress >= 100)
CalibrationIncrement == 10

CalibrationEnd == 100

\* 95 + Math.random() * 5, in whole numbers
CalibratedQualities == 95..99

\* The component after its first render.  starting holds, for each call of
\* startARSession awaiting getUserMedia, the state its functions close over;
\* intervals holds the local `progress` of each calibration interval;
\* frames the render loops requestAnimationFrame was given; draws counts the
\* redraws of the overlay; sessions counts the clicks on "Start AR Session";
\* stopped tells that stopARSession ran and no session was started since.
ArMounted ==
    [isARActive |-> FALSE, cameraStream |-> FALSE,
     calibrationStatus |-> "pending", trackingQuality |-> 0,
     starting |-> <<>>, intervals |-> <<>>, frames |-> <<>>, draws |-> 0,
     sessions |-> 0, stopped |-> FALSE]

\* The functions of one render: the values of the render's state they close over.
ArClosure(a) == [isARActive |-> a.isARActive]

\* <video ref={videoRef}> and <canvas ref={canvasRef}> are rendered inside
\* {isARActive && (...)}: the refs hold the elements while that is rendered.
ArRefsAttached(a) == a.isARActive

RemoveAt(q, i) == SubSeq(q, 1, i - 1) \o SubSeq(q, i + 1, Len(q))

\* renderLoop, as the render `closure` defined it:
\* if (!isARActive || !canvasRef.current || !videoRef.current) return;
\* else the overlay is redrawn and the loop requests its next frame.
RenderLoop(a, closure) ==
    IF ~closure.isARActive \/ ~ArRefsAttached(a) THEN a
    ELSE [a EXCEPT !.draws = @ + 1, !.frames = Append(@, closure)]

\* startCalibration
StartCalibration(a) ==
    [a EXCEPT !.calibrationStatus = "calibrating", !.intervals = Append(@, 0)]

\* startARSession after getUserMedia resolved: the stream is stored, the
\* session is active, startCalibration(), startARRendering().
StartARSessionGranted(a, closure) ==
    RenderLoop(StartCalibration([a EXCEPT !.cameraStream = TRUE,
                                          !.isARActive = TRUE,
                                          !.stopped = FALSE]),
               closure)

\* stopARSession
StopARSession(a) ==
    [a EXCEPT !.cameraStream = FALSE, !.isARActive = FALSE,
              !.calibrationStatus = "pending", !.trackingQuality = 0,
              !.stopped = TRUE]

\* The callback of the calibration interval i
CalibrationTick(a, i, quality) ==
    LET progress == a.intervals[i] + CalibrationIncrement
    IN  IF progress >= CalibrationEnd
        THEN [a EXCEPT !.intervals = RemoveAt(@, i),
                       !.calibrationStatus = "calibrated",
                       !.trackingQuality = quality]
        ELSE [a EXCEPT !.intervals[i] = progress, !.trackingQuality = progress]

PagesMounted ==
    /\ ar = ArMounted
    /\ page = PageMounted
    /\ dash = DashMounted
    /\ ai = AiMounted
    /\ twin = TwinMounted

\* The process at its start, on a fresh database.
BootInit ==
    /\ scans = <<>>
    /\ seq = 0
    /\ db = [patients |-> <<>>, users |-> <<>>, scan_annotations |-> <<>>]
    /\ boot = BootFresh
    /\ resp = NoResp
    /\ req = NoReq
    /\ uploaded = <<>>
    /\ statsPc = "total"
    /\ stats = NoStats
    /\ posted = {}
    /\ ViewerIdle
    /\ ModelViewerIdle
    /\ SliceViewerMounted
    /\ AuthProviderMounted
    /\ PagesMounted

Init ==
    /\ ApiInit
    /\ ViewerIdle
    /\ ModelViewerIdle
    /\ SliceViewerMounted
    /\ AuthProviderMounted
    /\ ServerListening
    /\ PagesMounted

ApiUnchanged == UNCHANGED apiVars

UiUnchanged == UNCHANGED <<viewerVars, modelViewerVars, sliceVars, authVars, bootVars, pageVars>>

TdvSpsOnly == UNCHANGED <<apiVars, tableVars, modelViewerVars, sliceVars, authVars, bootVars, pageVars>>

MvOnly == UNCHANGED <<apiVars, tableVars, viewerVars, sliceVars, authVars, bootVars, pageVars>>

MsvOnly == UNCHANGED <<apiVars, tableVars, viewerVars, modelViewerVars, authVars, bootVars, pageVars>>

AuthOnly == UNCHANGED <<apiVars, tableVars, viewerVars, modelViewerVars, sliceVars, bootVars, pageVars>>

BootOnly ==
    UNCHANGED <<resp, req, uploaded, statsPc, stats, posted,
                viewerVars, modelViewerVars, sliceVars, authVars, pageVars>>

ClientsUnchanged == UNCHANGED <<viewerVars, modelViewerVars, sliceVars, authVars, pageVars>>

OthersUnchanged ==
    UNCHANGED <<apiVars, tableVars, viewerVars, modelViewerVars, sliceVars,
                authVars, bootVars>>

PageOnly == OthersUnchanged /\ UNCHANGED <<dash, ai, twin, ar>>

DashOnly == OthersUnchanged /\ UNCHANGED <<page, ai, twin, ar>>

AiOnly == OthersUnchanged /\ UNCHANGED <<page, dash, twin, ar>>

TwinOnly == OthersUnchanged /\ UNCHANGED <<page, dash, ai, ar>>

ArOnly == OthersUnchanged /\ UNCHANGED <<page, dash, ai, twin>>

\* A link to another scan of the same route: useParams gives the new scanId
\* to the same component instance and the effect of [scanId] runs.
PageNavigate(id) ==
    /\ page.fetch < MaxNavigations + 1
    /\ id # page.scanId
    /\ page' = FetchScanData([page EXCEPT !.scanId = id], id)
    /\ PageOnly

\* The response to a request arrives (GET /api/scans/:id is answered 200 when
\* the row exists and 404 otherwise), or the request fails.
PageFetchSettles(f, outcome) ==
    /\ f \in page.inflight
    /\ outcome \in {IF HasRow(scans, f.id) THEN "ok" ELSE "not ok", "failed"}
    /\ page' = FetchScanDataSettled(page, f, outcome)
    /\ PageOnly

\* The interval of 10 seconds fires: fetchScans up to its await.
DashTick ==
    /\ dash.ticks < MaxTicks
    /\ dash' = [dash EXCEPT !.ticks = dash.ticks + 1, !.inflight = dash.inflight + 1]
    /\ DashOnly

\* The response to GET /api/scans arrives, or the request fails.
DashFetchSettles(ok) ==
    /\ dash.inflight > 0
    /\ dash' = FetchScansSettled(dash, ok, AllScans(scans))
    /\ DashOnly

\* onClick of a card of the list: setSelectedScan(scan).
DashSelect(id) ==
    /\ \E i \in DOMAIN dash.scans : dash.scans[i] = id
    /\ dash' = [dash EXCEPT !.selectedScan = id]
    /\ DashOnly

\* onClick of "Start AI Analysis", shown while !isAnalyzing && results.length === 0
AiStart ==
    /\ ~ai.isAnalyzing
    /\ ai.results = <<>>
    /\ ai' = StartMultiModalAnalysis(ai)
    /\ AiOnly

\* A timeout of simulateAIAnalysis fires.
AiTimeout ==
    /\ ai.isAnalyzing
    /\ ai' = SimulateAIAnalysisStep(ai)
    /\ AiOnly

\* onChange of the checkbox of a model
AiCheck(id, checked) ==
    /\ ai.toggles < MaxToggles
    /\ ai' = [ai EXCEPT !.selectedModels = WithModel(@, id, checked),
                        !.toggles = @ + 1]
    /\ AiOnly

\* onClick of a scenario button: !isSimulating && startSimulation(scenario)
TwinStart(scenario) ==
    /\ ~twin.isSimulating
    /\ twin' = StartSimulation(twin, scenario)
    /\ TwinOnly

\* onChange of the checkbox "Real-time mode": the delay of the timeouts a
\* later run sets (1000 ms or 100 ms).
TwinSetRealTimeMode(checked) ==
    /\ twin' = [twin EXCEPT !.realTimeMode = checked]
    /\ TwinOnly

\* A timeout of startSimulation fires.
TwinTimeout(draw) ==
    /\ twin.isSimulating
    /\ twin' = SimulationStep(twin, draw)
    /\ TwinOnly

\* onClick of "Start AR Session" (shown while !isARActive): startARSession
\* up to its await of getUserMedia.
ArStartClick ==
    /\ ~ar.isARActive
    /\ ar.sessions < MaxSessions
    /\ ar' = [ar EXCEPT !.starting = Append(@, ArClosure(ar)), !.sessions = @ + 1]
    /\ ArOnly

\* getUserMedia resolves with a stream.
ArCameraGranted(i) ==
    /\ i \in DOMAIN ar.starting
    /\ ar' = StartARSessionGranted([ar EXCEPT !.starting = RemoveAt(@, i)],
                                   ar.starting[i])
    /\ ArOnly

\* getUserMedia rejects: console.error and alert.
ArCameraDenied(i) ==
    /\ i \in DOMAIN ar.starting
    /\ ar' = [ar EXCEPT !.starting = RemoveAt(@, i)]
    /\ ArOnly

\* onClick of "Stop AR Session" (shown while isARActive)
ArStop ==
    /\ ar.isARActive
    /\ ar' = StopARSession(ar)
    /\ ArOnly

\* A calibration interval fires (every 200 ms until it clears itself).
ArCalibrationInterval(i, quality) ==
    /\ i \in DOMAIN ar.intervals
    /\ ar' = CalibrationTick(ar, i, quality)
    /\ ArOnly

\* The bodies the clients post, and two that name no scan or have no note.
AnnotationBodies ==
    [scanId : {1, NumSampleScans + 1}, position : {"0.8,0.2,0.5"},
     note : {"", "Critical vessel"}, type : {"info", "critical"}]

CallerRoles == {"", "surgeon", "nurse", "admin"}

Clock == 1..2

\* Requests of the upload form (pages/Upload.tsx), every combination.
UploadRequests ==
    [patientName : PatientNames, scanType : ScanTypes, file : Files \cup {NoFile}]

\* Two complete uploads and one incomplete one.
SomeUploads ==
    { [patientName |-> "Test Patient", scanType |-> "CT",
       file |-> File(<<"chest", ".gif">>, "image/gif", 512 * KB)],
      [patientName |-> "Jane Smith", scanType |-> "MRI",
       file |-> File(<<"spine", ".DCM">>, "application/octet-stream", 12 * MB)],
      [patientName |-> "", scanType |-> "CT", file |-> NoFile] }

Upload(requests, max) ==
    /\ seq - NumSampleScans < max
    /\ \E q \in requests, r1 \in BOOLEAN, r2 \in BOOLEAN, r3 \in BOOLEAN :
        UploadScan(q.patientName, q.scanType, q.file, r1, r2, r3)

\* The scan resource: upload, read, status update, delete.
Next ==
    \/ Upload(SomeUploads, MaxUploads) /\ UiUnchanged
    \/ \E id \in IdInputs : GetScan(id) /\ UiUnchanged
    \/ \E id \in IdInputs, st \in StatusInputs : UpdateStatus(id, st) /\ UiUnchanged
    \/ \E id \in IdInputs : DeleteScan(id) /\ UiUnchanged

Spec == Init /\ [][Next]_vars

\* The upload form alone, over every request.
UploadNext ==
    \/ Upload(UploadRequests, MaxFormUploads) /\ UiUnchanged
    \/ \E id \in IdInputs : GetScan(id) /\ UiUnchanged

UploadSpec == Init /\ [][UploadNext]_vars

\* The dashboard: the list and the statistics, while scans come and go.
\* (A status update changes none of the four counts and is left out.)
StatsNext ==
    \/ Upload(SomeUploads, MaxUploads) /\ UiUnchanged
    \/ \E id \in IdInputs : DeleteScan(id) /\ UiUnchanged
    \/ ListScans /\ UiUnchanged
    \/ StatsTotal /\ UiUnchanged
    \/ StatsHighRisk /\ UiUnchanged
    \/ StatsRecent /\ UiUnchanged
    \/ StatsActive /\ UiUnchanged

StatsSpec == Init /\ [][StatsNext]_vars

\* The statistics while any scan of the table may be deleted.
SnapshotNext ==
    \/ Upload(SomeUploads, MaxUploads) /\ UiUnchanged
    \/ \E id \in DOMAIN scans : DeleteScan(id) /\ UiUnchanged
    \/ StatsTotal /\ UiUnchanged
    \/ StatsHighRisk /\ UiUnchanged
    \/ StatsRecent /\ UiUnchanged
    \/ StatsActive /\ UiUnchanged

SnapshotSpec == Init /\ [][SnapshotNext]_vars

\* The viewers: mounting, scan changes, timers, animation frames, unmounting.
ViewerNext ==
    \/ \E scan \in ScanProps : TdvMount(scan) /\ TdvSpsOnly
    \/ \E scan \in ScanProps : TdvScanChange(scan) /\ TdvSpsOnly
    \/ \E t \in tdv.timers : TdvTimeout(t) /\ TdvSpsOnly
    \/ \E f \in tdv.frames : TdvFrame(f) /\ TdvSpsOnly
    \/ TdvToggleAnimation /\ TdvSpsOnly
    \/ TdvToggleViewMode /\ TdvSpsOnly
    \/ TdvUnmount /\ TdvSpsOnly
    \/ SpsMount /\ TdvSpsOnly
    \/ \E f \in sps.frames : SpsFrame(f) /\ TdvSpsOnly
    \/ SpsUnmount /\ TdvSpsOnly

ViewerSpec == Init /\ [][ViewerNext]_vars

\* The layers of the 3D view: toggles, scan changes and frames.
LayerNext ==
    \/ \E scan \in ScanProps : TdvMount(scan) /\ TdvSpsOnly
    \/ \E scan \in ScanProps : TdvScanChange(scan) /\ TdvSpsOnly
    \/ \E layerName \in LayerNames : TdvToggleLayer(layerName) /\ TdvSpsOnly
    \/ \E t \in tdv.timers : TdvTimeout(t) /\ TdvSpsOnly
    \/ \E f \in tdv.frames : TdvFrame(f) /\ TdvSpsOnly

LayerSpec == Init /\ [][LayerNext]_vars

\* The model viewer: mounting, model changes, loads, frames, clicks.
ModelViewerNext ==
    \/ \E url \in ModelUrls : MvMount(url) /\ MvOnly
    \/ \E url \in ModelUrls : MvUrlChange(url) /\ MvOnly
    \/ \E n \in mv.loads : MvModelLoaded(n) /\ MvOnly
    \/ \E f \in mv.frames : MvFrame(f) /\ MvOnly
    \/ MvToggleAnnotationMode /\ MvOnly
    \/ \E l \in mv.listeners, hit \in BOOLEAN, note \in NoteInputs :
          MvClick(l, hit, note) /\ MvOnly
    \/ MvUnmount /\ MvOnly

ModelViewerSpec == Init /\ [][ModelViewerNext]_vars

\* The slice viewer: paging, toggles, resizing, annotation clicks.
SliceViewerNext ==
    \/ MsvNextSlice /\ MsvOnly
    \/ MsvPrevSlice /\ MsvOnly
    \/ \E o \in OverlayNames : MsvToggleOverlay(o) /\ MsvOnly
    \/ MsvToggleShowAnnotations /\ MsvOnly
    \/ MsvToggleAnnotationMode /\ MsvOnly
    \/ \E w \in DisplayWidths : MsvResize(w) /\ MsvOnly
    \/ \E point \in ClickPoints, note \in NoteInputs : MsvClick(point, note) /\ MsvOnly

SliceViewerSpec == Init /\ [][SliceViewerNext]_vars

\* The user list and the annotation routes, while scans come and go.
DirectoryNext ==
    \/ Upload(SomeUploads, MaxUploads) /\ UiUnchanged
    \/ \E id \in IdInputs : DeleteScan(id) /\ UiUnchanged
    \/ \E role \in CallerRoles : GetUsers(role) /\ UiUnchanged
    \/ \E body \in AnnotationBodies, now \in Clock : PostAnnotation(body, now) /\ UiUnchanged
    \/ \E scanId \in IdInputs : GetAnnotations(scanId) /\ UiUnchanged

DirectorySpec == Init /\ [][DirectoryNext]_vars

\* The auth provider: the automatic login, logins, logouts.
AuthNext ==
    \/ AuthAutoLoginDone /\ AuthOnly
    \/ \E email \in Emails, password \in Passwords : AuthLogin(email, password) /\ AuthOnly
    \/ \E l \in auth.logins : AuthLoginDone(l) /\ AuthOnly
    \/ AuthLogout /\ AuthOnly

AuthSpec == Init /\ [][AuthNext]_vars

\* The start of the server on a fresh database, and the first requests.
BootNext ==
    \/ BootInsertSampleData /\ BootOnly
    \/ \E t \in SampleTables : BootInsertDone(t) /\ BootOnly
    \/ BootListen /\ BootOnly
    \/ BootListScans /\ ClientsUnchanged

BootSpec == BootInit /\ [][BootNext]_vars

\* A scan viewer page while links to other scans are followed.
PageNext ==
    \/ \E id \in PageIds : PageNavigate(id)
    \/ \E f \in page.inflight, outcome \in {"ok", "not ok", "failed"} :
           PageFetchSettles(f, outcome)

PageSpec == Init /\ [][PageNext]_vars

\* The multi-modal analysis: checkboxes, the start button, the timeouts.
AiNext ==
    \/ AiStart
    \/ AiTimeout
    \/ \E i \in DOMAIN AiModels, checked \in BOOLEAN : AiCheck(AiModels[i], checked)

AiSpec == Init /\ [][AiNext]_vars

\* The digital twin: scenario buttons and the timeouts of a run.
TwinNext ==
    \/ \E scenario \in DOMAIN SimulationScenarios : TwinStart(scenario)
    \/ \E draw \in 1..3 : TwinTimeout(draw)
    \/ \E checked \in BOOLEAN : TwinSetRealTimeMode(checked)

TwinSpec == Init /\ [][TwinNext]_vars

\* The AR guidance: sessions started and stopped, calibration intervals.
\* (No render loop ever requests a frame, so there is no step of a frame.)
ArNext ==
    \/ ArStartClick
    \/ \E i \in 1..MaxSessions : ArCameraGranted(i)
    \/ \E i \in 1..MaxSessions : ArCameraDenied(i)
    \/ ArStop
    \/ \E i \in 1..MaxSessions, quality \in CalibratedQualities :
           ArCalibrationInterval(i, quality)

ArSpec == Init /\ [][ArNext]_vars

\* The Dashboard while it refreshes, cards are clicked and scans are deleted.
DashNext ==
    \/ DashTick
    \/ \E ok \in BOOLEAN : DashFetchSettles(ok)
    \/ \E id \in 1..NumSampleScans : DashSelect(id)
    \/ \E id \in IdInputs : DeleteScan(id) /\ UiUnchanged

DashSpec == Init /\ [][DashNext]_vars

----------------------------------------------------------------------------
(* Properties of the scan API *)

RiskLevels == {"low", "medium", "high"}

\* An accepted file, in the words of the interface table: JPEG/PNG/GIF, or a
\* name with the suffix .dcm.
IsAcceptedFile(f) ==
    \/ f.mimetype \in {"image/jpeg", "image/png", "image/gif"}
    \/ (Len(f.originalname) > 0 /\ f.originalname[Len(f.originalname)] \in {".dcm", ".DCM"})

IsValidUpload(q) ==
    /\ q.patientName # ""
    /\ q.scanType # ""
    /\ q.file.present
    /\ IsAcceptedFile(q.file)
    /\ q.file.size < 50 * MB

LacksField(q) == q.patientName = "" \/ q.scanType = "" \/ ~q.file.present

\* C1: every upload with a patient name, a scan type and an accepted file
\* under 50MB is answered 201 with a risk level among low, medium, high,
\* whatever the scan type, the file name and the file size.
C1_ValidUploadIsCreated ==
    (resp.op = "upload" /\ IsValidUpload(req))
        => (resp.code = 201 /\ resp.level \in RiskLevels)

C1_Witness ==
    /\ resp.op = "upload"
    /\ IsValidUpload(req)
    /\ req.scanType = "PET"
    /\ resp.code = 201
    /\ resp.level = "low"

\* C2 as stated: a GET of the scanId of a 201 response, not deleted since,
\* returns the uploaded patient name and the status "completed".
C2_GetAfterUploadIsCompleted ==
    (resp.op = "getScan" /\ resp.id \in DOMAIN uploaded)
        => /\ resp.code = 200
           /\ resp.patient = uploaded[resp.id].patient
           /\ resp.scanStatus = "completed"

\* C2 amended: a GET of the scanId of a 201 response, not deleted since,
\* returns the uploaded patient name, and the status "completed" when no
\* status update was addressed to that scan since the upload.
C2_GetAfterUpload ==
    (resp.op = "getScan" /\ resp.id \in DOMAIN uploaded)
        => /\ resp.code = 200
           /\ resp.patient = uploaded[resp.id].patient
           /\ (~uploaded[resp.id].updated => resp.scanStatus = "completed")

C2_Witness ==
    /\ resp.op = "getScan"
    /\ resp.id \in DOMAIN uploaded
    /\ ~uploaded[resp.id].updated
    /\ resp.scanStatus = "completed"
    /\ \E other \in DOMAIN uploaded :
          /\ other > resp.id
          /\ uploaded[other].patient # resp.patient

\* C3: a GET of an id that no scan has at the time of the request (never
\* created, or created and deleted since) is answered 404.
C3_UnknownScanIs404 ==
    (resp.op = "getScan" /\ ~HasRow(scans, resp.id)) => resp.code = 404

C3_Witness ==
    /\ resp.op = "getScan"
    /\ resp.code = 404
    /\ resp.id > NumSampleScans
    /\ resp.id <= seq

\* C4: the totalScans that GET /stats returns is the number of elements that
\* GET /scans returns from the table the count was taken from.
C4_TotalScansIsListLength ==
    [][/\ (statsPc = "total" /\ statsPc' = "highRisk")
            => stats'.totalScans = Len(AllScans(scans))
       /\ (statsPc = "active" /\ statsPc' = "total")
            => resp'.stats.totalScans = stats.totalScans]_vars

C4_Witness ==
    /\ resp.op = "stats"
    /\ seq = NumSampleScans + 2
    /\ ~HasRow(scans, 1)
    /\ ~HasRow(scans, NumSampleScans + 1)
    /\ resp.stats.totalScans = NumSampleScans
    /\ Len(AllScans(scans)) = NumSampleScans

\* C5: an upload that lacks the patient name, the scan type or the file is
\* answered 400 with an error message, and inserts no row.
C5_MissingFieldIs400 ==
    /\ []((resp.op = "upload" /\ LacksField(req))
            => (resp.code = 400 /\ resp.error # ""))
    /\ [][(resp'.op = "upload" /\ LacksField(req'))
            => (scans' = scans /\ seq' = seq)]_vars

\* C6: DELETE is answered 200 exactly when the scan exists, and then the scan
\* is gone; otherwise it is answered 404 and the table is unchanged.
C6_DeleteExisting ==
    [][(resp'.op = "delete" /\ <<resp, scans>>' # <<resp, scans>>)
        => /\ (resp'.code = 200) <=> HasRow(scans, resp'.id)
           /\ ~HasRow(scans', resp'.id)
           /\ \A i \in DOMAIN scans : i # resp'.id => (HasRow(scans', i) /\ scans'[i] = scans[i])
           /\ ~HasRow(scans, resp'.id) => (resp'.code = 404 /\ scans' = scans)]_vars

C6_Witness ==
    /\ resp.op = "delete"
    /\ resp.code = 200
    /\ resp.id > NumSampleScans
    /\ ~HasRow(scans, resp.id)
    /\ HasRow(scans, 1)

\* C7: a status update with a valid status, addressed to an id no scan has,
\* is answered 404.
C7_StatusOfUnknownScanIs404 ==
    [][\A id \in IdInputs, st \in {"pending", "completed", "failed"} :
          (~HasRow(scans, id) /\ UpdateStatus(id, st)) => resp'.code = 404]_vars

\* C8: the status of every stored scan is pending, completed or failed, and
\* a status update with another value is answered 400 and changes no scan.
C8_StatusEnum ==
    /\ [](\A i \in DOMAIN scans : scans[i].status \in {"pending", "completed", "failed"})
    /\ [][\A id \in IdInputs, st \in StatusInputs \ {"pending", "completed", "failed"} :
            UpdateStatus(id, st) => (resp'.code = 400 /\ scans' = scans)]_vars

C8_Witness ==
    /\ resp.op = "status"
    /\ resp.code = 400
    /\ resp.id > NumSampleScans
    /\ HasRow(scans, resp.id)
    /\ scans[resp.id].status = "failed"

----------------------------------------------------------------------------
(* Properties of the viewers *)

\* C9: once a viewer has unmounted its render loop has stopped: no frame
\* callback draws its scene any more, also when the unmount came before the
\* start-up timer fired.
C9_NoDrawAfterUnmount ==
    [][/\ tdv.phase = "unmounted" => tdv'.draws = tdv.draws
       /\ sps.phase = "unmounted" => sps'.draws = sps.draws]_vars

\* C10: unmounting a viewer removes exactly one canvas from its mount point
\* and does not throw.
C10_UnmountRemovesOneCanvas ==
    /\ tdv.phase = "unmounted" => (tdv.removed = 1 /\ ~tdv.threw)
    /\ sps.phase = "unmounted" => (sps.removed = 1 /\ ~sps.threw)

\* C11: no two render loops that run at the same time draw the same scene,
\* also after the scan or the model URL of a mounted viewer has changed.
\* (Every pending frame callback is the next tick of one loop, and draws the
\* scene sceneRef holds when it runs.)
C11_LoopsIsolated ==
    /\ tdv.phase = "mounted" => Cardinality(tdv.frames) <= 1
    /\ mv.phase = "mounted" => Cardinality(mv.frames) <= 1

\* C12: once the user has paused the animation or switched to the static
\* view mode of ThreeDVisualization, no tick rotates the scene until the
\* user resumes.
C12_PausedLoopDoesNotRotate ==
    [][(tdv'.draws # tdv.draws /\ (~tdv.isAnimating \/ tdv.viewMode = "static"))
          => ~tdv'.rotated]_vars

\* C13: with annotation mode switched on, a click whose ray hits the model,
\* followed by a non-empty note, adds a marker and reports the annotation;
\* with annotation mode off a click adds nothing.
C13_ClickAnnotates ==
    /\ (mv.click.mode /\ mv.click.hit /\ Trim(mv.click.note) \notin {<<>>, <<"null">>})
          => (mv.click.added /\ mv.click.reported)
    /\ (mv.click.canvas # 0 /\ ~mv.click.mode) => ~mv.click.added

----------------------------------------------------------------------------
(* Properties of the 2D slice viewer *)

\* The markers of the stored annotations of the current slice.
MarkersOfCurrentSlice ==
    {[x |-> Times(msv.annotations[i].x, msv.canvas.width),
      y |-> Times(msv.annotations[i].y, msv.canvas.height)] :
         i \in {j \in DOMAIN msv.annotations : msv.annotations[j].slice = msv.currentSlice}}

\* C14: the canvas is redrawn after every change of the slice index, of the
\* overlay toggles and of the annotation list: between two interactions it
\* shows the current slice and, while annotations are shown, exactly the
\* markers of the stored annotations of that slice.
C14_CanvasShowsAnnotations ==
    /\ msv.drawn.slice = msv.currentSlice
    /\ msv.showAnnotations => msv.drawn.markers = MarkersOfCurrentSlice

\* C15: the x and y of every stored annotation lie within [0,1].
C15_NormalisedCoordinates ==
    \A i \in DOMAIN msv.annotations :
        /\ 0 <= msv.annotations[i].x.num /\ msv.annotations[i].x.num <= msv.annotations[i].x.den
        /\ 0 <= msv.annotations[i].y.num /\ msv.annotations[i].y.num <= msv.annotations[i].y.den

\* C16: toggling an overlay and re-rendering changes neither the width nor
\* the height of the canvas; of the drawn content, only the overlays change.
C16_ToggleKeepsCanvasSize ==
    [][msv'.overlays # msv.overlays
          => /\ msv'.canvas = msv.canvas
             /\ msv'.drawn.overlays = {o \in OverlayNames : msv'.overlays[o]}
             /\ msv'.drawn.slice = msv.drawn.slice]_vars

C16_Witness ==
    /\ msv.last = "overlay"
    /\ msv.drawn.overlays = {"vessels"}
    /\ msv.rect.width # msv.canvas.width
    /\ msv.canvas = [width |-> CanvasWidth, height |-> CanvasHeight]

----------------------------------------------------------------------------
(* Properties of the annotation and user routes *)

\* C17: every POST /api/annotations is answered 201 with an echo of its body,
\* every GET /api/annotations/:scanId is answered 200 with an empty array, and
\* no row of the table scan_annotations is ever added or changed.
C17_AnnotationsAreNotStored ==
    /\ [](resp.op = "getAnnotations" => (resp.code = 200 /\ resp.rows = <<>>))
    /\ [][\A body \in AnnotationBodies, now \in Clock :
            PostAnnotation(body, now) => (resp'.code = 201 /\ resp'.body = body)]_vars
    /\ [][db'.scan_annotations = db.scan_annotations]_vars

C17_Witness ==
    /\ resp.op = "getAnnotations"
    /\ resp.id = 1
    /\ resp.id \in posted
    /\ \E i \in DOMAIN db.scan_annotations : db.scan_annotations[i].scan_id = 1
    /\ resp.rows = <<>>

\* C18 as stated: after login(email, password) completes, for any email and
\* any password, the signed-in user equals the demo user in every field, the
\* email included.
C18_LoginYieldsDemoUser ==
    auth.last = "login" => auth.user = DemoUser

\* C18 amended: after login(email, password) completes, the signed-in user has
\* the id, the name and the role of the demo user whatever the email and the
\* password, and its email is the email that was passed; the automatic login
\* signs in the demo user itself.
C18_LoginYieldsDemoUserWithEmail ==
    /\ auth.last = "login"
          => /\ auth.user.id = DemoUser.id
             /\ auth.user.name = DemoUser.name
             /\ auth.user.role = DemoUser.role
             /\ auth.user.email = auth.lastEmail
    /\ auth.last = "autoLogin" => auth.user = DemoUser

C18_Witness ==
    /\ auth.last = "login"
    /\ auth.lastEmail = "nurse.williams@hospital.com"
    /\ auth.user.name = "Dr. Smith"
    /\ auth.user.email = "nurse.williams@hospital.com"
    /\ ~auth.autoLogin

\* C19: GET /api/users returns user records to a caller with the admin role
\* only.
C19_UsersAreAdminOnly ==
    (resp.op = "users" /\ resp.caller # "admin") => (resp.code # 200 /\ resp.rows = <<>>)

----------------------------------------------------------------------------
(* Properties of the start of the server *)

BootAllStored == \A t \in SampleTables : StoredRows(t) = SampleRows(t)

\* C20: on a fresh database initializeDatabase resolves only after every
\* sample-data insert has completed, so that the server listens only when
\* all sample rows are stored.
C20_ResolvesAfterAllInserts ==
    (boot.resolved \/ boot.listening) => BootAllStored

----------------------------------------------------------------------------
(* Properties of the statistics, the upload filter and the pages *)

\* C21: in every response of GET /api/stats, highRiskCases, recentScans and
\* activePatients are each at most totalScans, also when uploads and deletes
\* are handled while the statistics are computed.
C21_StatsAreASnapshot ==
    resp.op = "stats"
        => /\ resp.stats.highRiskCases <= resp.stats.totalScans
           /\ resp.stats.recentScans <= resp.stats.totalScans
           /\ resp.stats.activePatients <= resp.stats.totalScans

\* C22: an upload whose file is neither JPEG/PNG/GIF nor .dcm-suffixed is
\* answered 400, as an oversized file is, and creates no row.
C22_UnsupportedTypeIs400 ==
    /\ []((resp.op = "upload" /\ req.file.present /\ ~IsAcceptedFile(req.file))
            => resp.code = 400)
    /\ [][(resp'.op = "upload" /\ req'.file.present /\ ~IsAcceptedFile(req'.file))
            => (scans' = scans /\ seq' = seq)]_vars

\* C23: once every fetch of a scan viewer page has settled, the page shows the
\* scan of the current scanId when the fetch of that scanId succeeded: no
\* response to an earlier scanId and no earlier error replaces or hides it.
C23_PageShowsCurrentScan ==
    (page.inflight = {} /\ <<page.fetch, "ok">> \in page.settled)
        => (PageShows(page) = "viewer" /\ page.scan = page.scanId)

\* C24: a refresh of the Dashboard selects the first scan only when no scan
\* is selected: it never replaces the selection the user made.
C24_RefreshKeepsSelection ==
    [][(dash'.inflight < dash.inflight /\ dash.selectedScan # 0)
        => dash'.selectedScan = dash.selectedScan]_vars

\* C25: in ThreeDVisualization the objects of each layer are visible exactly
\* when the toggle of the layer is on, after any toggles and scan changes.
C25_VisibilityIsToggleState ==
    tdv.phase = "mounted"
        => \A l \in LayerNames :
              tdv.objects[l] # "none" => (tdv.objects[l] = "visible" <=> tdv.layers[l])

\* C26: with all five AI models selected (the initial state), a multi-modal
\* analysis that has completed leaves exactly one result per model, five
\* results in all.
C26_OneResultPerModel ==
    (ai.completed /\ ai.startedWith = InitialSelectedModels)
        => ai.results = AiModels

\* C27: once a Digital Twin simulation has completed (progress 100,
\* isSimulating false) the component shows "Simulation Complete" and the
\* results panel, and its render does not throw.
C27_CompletedSimulationIsShown ==
    (~twin.isSimulating /\ IsPercent(twin.simulationProgress, 100))
        => /\ SimulationStatus(twin) = "Simulation Complete"
           /\ ResultsPanel(twin) = "shown"

\* C28: after stopARSession, calibrationStatus stays "pending" and
\* trackingQuality stays 0 until a new AR session is started, also when the
\* session is stopped while the calibration is in progress.
C28_StoppedStaysPending ==
    ar.stopped => (ar.calibrationStatus = "pending" /\ ar.trackingQuality = 0)

\* C29: after startARSession succeeded and while the session is active, the
\* AR rendering loop runs: the overlay has been redrawn and the next frame of
\* the loop is requested; once the session is stopped the loop stops.
C29_RenderLoopRuns ==
    /\ (ar.isARActive /\ ar.cameraStream) => (ar.draws > 0 /\ ar.frames # <<>>)
    /\ ~ar.isARActive => ar.frames = <<>>

====
